---- MODULE Spec2Model ----
(***************************************************************************)
(* Model of main.py, the one-shot survey solver: the API-key check, the    *)
(* browser setup, the try block (steps 1 to 6), the top-level except       *)
(* handler and the finally block.  Every call on the browser session or on *)
(* the completion service either returns or raises; the page (radio        *)
(* controls, labels) and the model response are chosen by the environment  *)
(* at the call that reads them.                                            *)
(*                                                                         *)
(* A text is a sequence of tokens, a token being either a word or the      *)
(* whitespace token " ".  A control reference is the position of the       *)
(* control in the list find_elements returned (its DOM order).             *)
(***************************************************************************)
EXTENDS Integers, Sequences, FiniteSets

VARIABLES
    pc,             \* position of the script
    apiKey,         \* openai.api_key after load_dotenv()/os.getenv
    exitCode,       \* process exit status, -1 while running
    exc,            \* the exception the top-level except caught / that propagates
    log,            \* kinds of log records emitted
    launched,       \* webdriver.Chrome(...) returned a session
    navCalls,       \* number of driver.get calls
    quitCalls,      \* number of driver.quit calls
    overlayPresent, \* the page holds the #ai-overlay element
    overlayText,    \* innerHTML text of the overlay
    option_inputs,  \* ids of the radio controls, in DOM order
    labelOf,        \* id -> raw text of the label[for=id] element, or NoLabel
    options_list,   \* the (radio_input, option_text) pairs
    extractIdx,     \* position of the extraction loop
    enumIdx,        \* position of the enumerate loop
    hlLog,          \* (idx, control, text) logged and highlighted in blue
    promptOptions,  \* the joined option labels put into the prompt
    requests,       \* number of ChatCompletion.create calls
    decided,        \* chosen_option has been assigned
    chosen_option,  \* trimmed text of the first completion choice
    found,          \* the flag of step 5
    scanIdx,        \* position of the matching loop
    scanned,        \* controls whose text the matching loop compared
    optionClicks,   \* controls on which click() was called
    nextAttempted,  \* find_element for the Next button was called
    nextClicks      \* number of next_button.click() calls

browser  == <<launched, navCalls, quitCalls>>
overlay  == <<overlayPresent, overlayText>>
page     == <<option_inputs, labelOf>>
extract  == <<options_list, extractIdx>>
enum     == <<enumIdx, hlLog>>
decision == <<promptOptions, requests, decided, chosen_option>>
exec     == <<found, scanIdx, scanned, optionClicks, nextAttempted, nextClicks>>
vars     == <<pc, apiKey, exitCode, exc, log, launched, navCalls, quitCalls,
              overlayPresent, overlayText, option_inputs, labelOf, options_list,
              extractIdx, enumIdx, hlLog, promptOptions, requests, decided,
              chosen_option, found, scanIdx, scanned, optionClicks,
              nextAttempted, nextClicks>>

----------------------------------------------------------------------------
(* Bounds and input sets *)

MaxRadios == 2

None == "None"

ApiKeys == {None, "", "sk-test"}

Ids == {"", "r1", "r2"}

NoLabel == <<"<no such element>">>

RawLabels == {<<"Red">>, <<" ", "Green", " ">>}

RawResponses == {<<"Red">>, <<"Green", " ">>, <<"Blue">>, <<"(no label)">>}

RadioLists == UNION {[1..n -> Ids] : n \in 0..MaxRadios}

LabelMaps == [Ids \ {""} -> RawLabels \cup {NoLabel}]

----------------------------------------------------------------------------
(* Pure helpers *)

IsSpace(tok) == tok = " "

RECURSIVE LStrip(_)
LStrip(s) == IF s # <<>> /\ IsSpace(Head(s)) THEN LStrip(Tail(s)) ELSE s

RECURSIVE RStrip(_)
RStrip(s) ==
    IF s # <<>> /\ IsSpace(s[Len(s)]) THEN RStrip(SubSeq(s, 1, Len(s) - 1)) ELSE s

Strip(s) == RStrip(LStrip(s))

RECURSIVE Join(_)
Join(texts) ==
    IF texts = <<>> THEN <<>>
    ELSE IF Len(texts) = 1 THEN texts[1]
    ELSE texts[1] \o <<", ">> \o Join(Tail(texts))

Texts(list) == [i \in 1..Len(list) |-> list[i].text]

NoLabelText == <<"(no label)">>

NoIdText == <<"(no id/label)">>

LabelFound(radio_id, labels) == labels[radio_id] # NoLabel

OptionTextOnePlaceholder(radio_id, labels) ==
    IF radio_id # "" /\ LabelFound(radio_id, labels)
    THEN Strip(labels[radio_id])
    ELSE NoIdText

OptionText(radio_id, labels) ==
    IF radio_id # ""
    THEN IF LabelFound(radio_id, labels) THEN Strip(labels[radio_id]) ELSE NoLabelText
    ELSE NoIdText

AddOptionFront(list, ctrl, text) == <<[ctrl |-> ctrl, text |-> text]>> \o list

AddOption(list, ctrl, text) == Append(list, [ctrl |-> ctrl, text |-> text])

KeyMissingNoneOnly(key) == key = None

KeyMissing(key) == key = None \/ key = ""

NoExc == [at |-> "none", op |-> "none", live |-> FALSE]

Step6Try == {"s6_find_next", "s6_mark", "s6_overlay", "s6_click"}

RaiseTargetRetry(at) ==
    IF at = "s4_request" THEN "s4_request"
    ELSE IF at \in Step6Try THEN "s6_notfound" ELSE "handler"

RaiseTarget(at) == IF at \in Step6Try THEN "s6_notfound" ELSE "handler"

UpdateOverlay(present, old, text) == IF present THEN text ELSE old

ScanContinuesNoBreak(isFound, i, n) == i <= n

ScanContinues(isFound, i, n) == ~isFound /\ i <= n

ErrorText == <<"An error occurred!">>

Outcomes == {"ok", "raise"}

----------------------------------------------------------------------------
(* Initial state: the interpreter is about to run load_dotenv(). *)

Init ==
    /\ pc = "load_env"
    /\ apiKey \in ApiKeys
    /\ exitCode = -1
    /\ exc = NoExc
    /\ log = {}
    /\ launched = FALSE
    /\ navCalls = 0
    /\ quitCalls = 0
    /\ overlayPresent = FALSE
    /\ overlayText = <<>>
    /\ option_inputs = <<>>
    /\ labelOf = [i \in Ids \ {""} |-> NoLabel]
    /\ options_list = <<>>
    /\ extractIdx = 1
    /\ enumIdx = 1
    /\ hlLog = <<>>
    /\ promptOptions = <<>>
    /\ requests = 0
    /\ decided = FALSE
    /\ chosen_option = <<>>
    /\ found = FALSE
    /\ scanIdx = 1
    /\ scanned = <<>>
    /\ optionClicks = <<>>
    /\ nextAttempted = FALSE
    /\ nextClicks = 0

----------------------------------------------------------------------------
(* Exceptions *)

\* An exception raised at `at` inside the try block: the except clause of
\* step 6 catches it when raised in step 6's try, the top-level one otherwise.
Raise(at, op) ==
    /\ pc' = RaiseTarget(at)
    /\ exc' = IF RaiseTarget(at) = "handler"
              THEN [at |-> at, op |-> op, live |-> TRUE]
              ELSE exc

\* An exception raised outside the try block ends the process with a traceback.
Crash(at, op) ==
    /\ pc' = "exited"
    /\ exitCode' = 1
    /\ exc' = [at |-> at, op |-> op, live |-> TRUE]

\* A step that only calls the session (screenshot, highlight, script).
DriverStep(at, next) ==
    /\ pc = at
    /\ \E o \in Outcomes :
          IF o = "ok" THEN pc' = next /\ exc' = exc ELSE Raise(at, "driver")
    /\ UNCHANGED <<apiKey, exitCode, log, browser, overlay, page, extract, enum,
                   decision, exec>>

\* A step that only calls update_overlay(text).
OverlayStep(at, text, next) ==
    /\ pc = at
    /\ \E o \in Outcomes :
          IF o = "ok"
          THEN /\ pc' = next
               /\ exc' = exc
               /\ overlayText' = UpdateOverlay(overlayPresent, overlayText, text)
          ELSE /\ Raise(at, "overlay")
               /\ overlayText' = overlayText
    /\ UNCHANGED <<apiKey, exitCode, log, browser, overlayPresent, page, extract,
                   enum, decision, exec>>

----------------------------------------------------------------------------
(* Before the try block *)

LoadEnv ==
    /\ pc = "load_env"
    /\ IF KeyMissing(apiKey)
       THEN /\ pc' = "exited"
            /\ exitCode' = 1
            /\ log' = log \cup {"error:api_key"}
       ELSE /\ pc' = "setup_chrome"
            /\ UNCHANGED <<exitCode, log>>
    /\ UNCHANGED <<apiKey, exc, browser, overlay, page, extract, enum, decision, exec>>

SetupChrome ==
    /\ pc = "setup_chrome"
    /\ \E o \in Outcomes :
          IF o = "ok"
          THEN /\ launched' = TRUE
               /\ pc' = "maximize"
               /\ UNCHANGED <<exitCode, exc>>
          ELSE /\ Crash("setup_chrome", "driver")
               /\ launched' = launched
    /\ UNCHANGED <<apiKey, log, navCalls, quitCalls, overlay, page, extract, enum,
                   decision, exec>>

Maximize ==
    /\ pc = "maximize"
    /\ \E o \in Outcomes :
          IF o = "ok"
          THEN pc' = "s1_get" /\ UNCHANGED <<exitCode, exc>>
          ELSE Crash("maximize", "driver")
    /\ UNCHANGED <<apiKey, log, browser, overlay, page, extract, enum, decision, exec>>

----------------------------------------------------------------------------
(* Step 1: open the page, inject the overlay, scroll *)

S1Get ==
    /\ pc = "s1_get"
    /\ navCalls' = navCalls + 1
    /\ \E o \in Outcomes :
          IF o = "ok" THEN pc' = "s1_shot" /\ exc' = exc ELSE Raise("s1_get", "driver")
    /\ UNCHANGED <<apiKey, exitCode, log, launched, quitCalls, overlay, page, extract,
                   enum, decision, exec>>

S1Shot == DriverStep("s1_shot", "s1_inject")

S1Inject ==
    /\ pc = "s1_inject"
    /\ \E o \in {"ok", "raise_inject", "raise_update"} :
          CASE o = "ok" ->
                 /\ overlayPresent' = TRUE
                 /\ overlayText' = UpdateOverlay(TRUE, overlayText, <<"Page Loaded">>)
                 /\ pc' = "s1_scroll_overlay"
                 /\ exc' = exc
            [] o = "raise_inject" ->
                 /\ UNCHANGED overlay
                 /\ Raise("s1_inject", "overlay")
            [] o = "raise_update" ->
                 /\ overlayPresent' = TRUE
                 /\ overlayText' = overlayText
                 /\ Raise("s1_inject", "overlay")
    /\ UNCHANGED <<apiKey, exitCode, log, browser, page, extract, enum, decision, exec>>

S1ScrollOverlay ==
    OverlayStep("s1_scroll_overlay", <<"Scrolling down to load content...">>, "s1_scroll")

S1Scroll == DriverStep("s1_scroll", "s2_html")

----------------------------------------------------------------------------
(* Step 2: rendered HTML *)

S2Html == DriverStep("s2_html", "s2_overlay")

S2Overlay == OverlayStep("s2_overlay", <<"Rendered HTML extracted">>, "s2_shot")

S2Shot == DriverStep("s2_shot", "s3_question")

----------------------------------------------------------------------------
(* Step 3: question and options *)

S3Question == DriverStep("s3_question", "s3_mark")

S3Mark == DriverStep("s3_mark", "s3_find_radios")

S3FindRadios ==
    /\ pc = "s3_find_radios"
    /\ \E o \in Outcomes :
          IF o = "ok"
          THEN /\ \E radios \in RadioLists, labels \in LabelMaps :
                     /\ option_inputs' = radios
                     /\ labelOf' = labels
               /\ options_list' = <<>>
               /\ pc' = "s3_extract"
               /\ exc' = exc
          ELSE /\ Raise("s3_find_radios", "driver")
               /\ UNCHANGED <<page, options_list>>
    /\ UNCHANGED <<apiKey, exitCode, log, browser, overlay, extractIdx, enum,
                   decision, exec>>

S3Extract ==
    /\ pc = "s3_extract"
    /\ IF extractIdx <= Len(option_inputs)
       THEN \E o \in Outcomes :
               IF o = "ok"
               THEN /\ options_list' =
                          AddOption(options_list, extractIdx,
                                    OptionText(option_inputs[extractIdx], labelOf))
                    /\ log' = IF /\ option_inputs[extractIdx] # ""
                                 /\ ~LabelFound(option_inputs[extractIdx], labelOf)
                              THEN log \cup {"warning:label_not_found"}
                              ELSE log
                    /\ extractIdx' = extractIdx + 1
                    /\ UNCHANGED <<pc, exc>>
               ELSE /\ Raise("s3_extract", "driver")
                    /\ UNCHANGED <<options_list, extractIdx, log>>
       ELSE /\ pc' = "s3_enum"
            /\ UNCHANGED <<exc, log, options_list, extractIdx>>
    /\ UNCHANGED <<apiKey, exitCode, browser, overlay, page, enum, decision, exec>>

S3Enum ==
    /\ pc = "s3_enum"
    /\ IF enumIdx <= Len(options_list)
       THEN /\ hlLog' = Append(hlLog, [idx  |-> enumIdx,
                                       ctrl |-> options_list[enumIdx].ctrl,
                                       text |-> options_list[enumIdx].text])
            /\ \E o \in Outcomes :
                  IF o = "ok"
                  THEN enumIdx' = enumIdx + 1 /\ UNCHANGED <<pc, exc>>
                  ELSE Raise("s3_enum", "driver") /\ enumIdx' = enumIdx
       ELSE /\ pc' = "s4_prompt"
            /\ UNCHANGED <<exc, enumIdx, hlLog>>
    /\ UNCHANGED <<apiKey, exitCode, log, browser, overlay, page, extract, decision, exec>>

----------------------------------------------------------------------------
(* Step 4: prompt and decision request *)

S4Prompt ==
    /\ pc = "s4_prompt"
    /\ promptOptions' = Join(Texts(options_list))
    /\ \E o \in Outcomes :
          IF o = "ok"
          THEN /\ pc' = "s4_request"
               /\ exc' = exc
               /\ overlayText' = UpdateOverlay(overlayPresent, overlayText,
                                               <<"Processing Survey Question...">>)
          ELSE /\ Raise("s4_prompt", "overlay")
               /\ overlayText' = overlayText
    /\ UNCHANGED <<apiKey, exitCode, log, browser, overlayPresent, page, extract, enum,
                   requests, decided, chosen_option, exec>>

S4Request ==
    /\ pc = "s4_request"
    /\ requests' = requests + 1
    /\ \E o \in Outcomes :
          IF o = "ok"
          THEN /\ \E r \in RawResponses : chosen_option' = Strip(r)
               /\ decided' = TRUE
               /\ pc' = "s4_overlay"
               /\ exc' = exc
          ELSE /\ Raise("s4_request", "api")
               /\ UNCHANGED <<decided, chosen_option>>
    /\ UNCHANGED <<apiKey, exitCode, log, browser, overlay, page, extract, enum,
                   promptOptions, exec>>

S4Overlay == OverlayStep("s4_overlay", <<"AI Chose: ">> \o chosen_option, "s4_shot")

S4Shot == DriverStep("s4_shot", "s5_scan")

----------------------------------------------------------------------------
(* Step 5: match the chosen option and click it *)

S5Scan ==
    /\ pc = "s5_scan"
    /\ IF ScanContinues(found, scanIdx, Len(options_list))
       THEN /\ scanned' = Append(scanned, options_list[scanIdx].ctrl)
            /\ IF options_list[scanIdx].text = chosen_option
               THEN \E o \in {"ok", "raise_mark", "raise_click"} :
                       CASE o = "ok" ->
                              /\ optionClicks' =
                                     Append(optionClicks, options_list[scanIdx].ctrl)
                              /\ found' = TRUE
                              /\ scanIdx' = scanIdx + 1
                              /\ UNCHANGED <<pc, exc>>
                         [] o = "raise_mark" ->
                              /\ Raise("s5_scan", "driver")
                              /\ UNCHANGED <<optionClicks, found, scanIdx>>
                         [] o = "raise_click" ->
                              /\ optionClicks' =
                                     Append(optionClicks, options_list[scanIdx].ctrl)
                              /\ Raise("s5_scan", "driver")
                              /\ UNCHANGED <<found, scanIdx>>
               ELSE /\ scanIdx' = scanIdx + 1
                    /\ UNCHANGED <<pc, exc, optionClicks, found>>
       ELSE /\ pc' = "s5_check"
            /\ UNCHANGED <<exc, scanned, optionClicks, found, scanIdx>>
    /\ UNCHANGED <<apiKey, exitCode, log, browser, overlay, page, extract, enum,
                   decision, nextAttempted, nextClicks>>

S5Check ==
    /\ pc = "s5_check"
    /\ IF ~found
       THEN /\ log' = log \cup {"warning:option_not_found"}
            /\ \E o \in Outcomes :
                  IF o = "ok"
                  THEN /\ pc' = "s6_find_next"
                       /\ exc' = exc
                       /\ overlayText' = UpdateOverlay(overlayPresent, overlayText,
                                                       <<"Chosen option not found!">>)
                  ELSE /\ Raise("s5_check", "overlay")
                       /\ overlayText' = overlayText
       ELSE /\ pc' = "s6_find_next"
            /\ UNCHANGED <<exc, log, overlayText>>
    /\ UNCHANGED <<apiKey, exitCode, browser, overlayPresent, page, extract, enum,
                   decision, exec>>

----------------------------------------------------------------------------
(* Step 6: the Next button *)

S6FindNext ==
    /\ pc = "s6_find_next"
    /\ nextAttempted' = TRUE
    /\ \E o \in Outcomes :
          IF o = "ok" THEN pc' = "s6_mark" /\ exc' = exc
                      ELSE Raise("s6_find_next", "driver")
    /\ UNCHANGED <<apiKey, exitCode, log, browser, overlay, page, extract, enum,
                   decision, found, scanIdx, scanned, optionClicks, nextClicks>>

S6Mark == DriverStep("s6_mark", "s6_overlay")

S6Overlay == OverlayStep("s6_overlay", <<"Clicking Next...">>, "s6_click")

S6Click ==
    /\ pc = "s6_click"
    /\ nextClicks' = nextClicks + 1
    /\ \E o \in Outcomes :
          IF o = "ok" THEN pc' = "final_shot" /\ exc' = exc
                      ELSE Raise("s6_click", "driver")
    /\ UNCHANGED <<apiKey, exitCode, log, browser, overlay, page, extract, enum,
                   decision, found, scanIdx, scanned, optionClicks, nextAttempted>>

S6NotFound ==
    /\ pc = "s6_notfound"
    /\ log' = log \cup {"warning:next_not_found"}
    /\ \E o \in Outcomes :
          IF o = "ok"
          THEN /\ pc' = "final_shot"
               /\ exc' = exc
               /\ overlayText' = UpdateOverlay(overlayPresent, overlayText,
                                               <<"Next button not found!">>)
          ELSE /\ Raise("s6_notfound", "overlay")
               /\ overlayText' = overlayText
    /\ UNCHANGED <<apiKey, exitCode, browser, overlayPresent, page, extract, enum,
                   decision, exec>>

FinalShot == DriverStep("final_shot", "final_overlay")

FinalOverlay == OverlayStep("final_overlay", <<"Process Completed">>, "finally")

----------------------------------------------------------------------------
(* except / finally *)

Handler ==
    /\ pc = "handler"
    /\ log' = log \cup {"exception"}
    /\ pc' = "finally"
    /\ \E o \in Outcomes :
          IF o = "ok"
          THEN /\ exc' = [exc EXCEPT !.live = FALSE]
               /\ overlayText' = UpdateOverlay(overlayPresent, overlayText, ErrorText)
          ELSE /\ exc' = [at |-> "handler", op |-> "overlay", live |-> TRUE]
               /\ overlayText' = overlayText
    /\ UNCHANGED <<apiKey, exitCode, browser, overlayPresent, page, extract, enum,
                   decision, exec>>

Finally ==
    /\ pc = "finally"
    /\ log' = log \cup {"closing"}
    /\ quitCalls' = quitCalls + 1
    /\ pc' = "exited"
    /\ \E o \in Outcomes :
          IF o = "ok"
          THEN /\ exitCode' = IF exc.live THEN 1 ELSE 0
               /\ exc' = exc
          ELSE /\ exitCode' = 1
               /\ exc' = [at |-> "finally", op |-> "driver", live |-> TRUE]
    /\ UNCHANGED <<apiKey, launched, navCalls, overlay, page, extract, enum,
                   decision, exec>>

----------------------------------------------------------------------------

Next ==
    \/ LoadEnv \/ SetupChrome \/ Maximize
    \/ S1Get \/ S1Shot \/ S1Inject \/ S1ScrollOverlay \/ S1Scroll
    \/ S2Html \/ S2Overlay \/ S2Shot
    \/ S3Question \/ S3Mark \/ S3FindRadios \/ S3Extract \/ S3Enum
    \/ S4Prompt \/ S4Request \/ S4Overlay \/ S4Shot
    \/ S5Scan \/ S5Check
    \/ S6FindNext \/ S6Mark \/ S6Overlay \/ S6Click \/ S6NotFound
    \/ FinalShot \/ FinalOverlay
    \/ Handler \/ Finally

Spec == Init /\ [][Next]_vars

----------------------------------------------------------------------------
(* Properties *)

KeyAbsent == apiKey \in {None, ""}

HasMatch == \E i \in 1..Len(options_list) : options_list[i].text = chosen_option

FirstMatch ==
    CHOOSE i \in 1..Len(options_list) :
        /\ options_list[i].text = chosen_option
        /\ \A j \in 1..(i - 1) : options_list[j].text # chosen_option

PcOrder ==
    <<"load_env", "setup_chrome", "maximize",
      "s1_get", "s1_shot", "s1_inject", "s1_scroll_overlay", "s1_scroll",
      "s2_html", "s2_overlay", "s2_shot",
      "s3_question", "s3_mark", "s3_find_radios", "s3_extract", "s3_enum",
      "s4_prompt", "s4_request", "s4_overlay", "s4_shot",
      "s5_scan", "s5_check",
      "s6_find_next", "s6_mark", "s6_overlay", "s6_click", "s6_notfound",
      "final_shot", "final_overlay",
      "handler", "finally", "exited">>

Rank(p) == CHOOSE i \in 1..Len(PcOrder) : PcOrder[i] = p

PastExtract == {p \in {PcOrder[i] : i \in 1..Len(PcOrder)} :
                   Rank(p) > Rank("s3_extract") /\ Rank(p) < Rank("handler")}

PastScan == {p \in {PcOrder[i] : i \in 1..Len(PcOrder)} :
                Rank(p) > Rank("s5_scan") /\ Rank(p) < Rank("handler")}

PastCheck == {p \in {PcOrder[i] : i \in 1..Len(PcOrder)} :
                 Rank(p) > Rank("s5_check") /\ Rank(p) < Rank("handler")}

\* C1: when the process has ended with the API key present and a browser
\* session created, driver.quit was called exactly once.
C1_QuitExactlyOnce ==
    (pc = "exited" /\ ~KeyAbsent /\ launched) => quitCalls = 1

\* C2: with the API key unset or empty the script never leaves the key check
\* except to exit with code 1: no browser is launched, nothing is navigated,
\* extracted, requested or clicked.
C2_NoKeyNoBrowser ==
    KeyAbsent =>
        /\ pc \in {"load_env", "exited"}
        /\ pc = "exited" => exitCode = 1
        /\ ~launched /\ navCalls = 0 /\ quitCalls = 0
        /\ options_list = <<>> /\ requests = 0 /\ ~decided
        /\ optionClicks = <<>> /\ ~nextAttempted /\ nextClicks = 0

C2_Witness == apiKey = "" /\ pc = "exited" /\ exitCode = 1

\* C3: at most one option control is ever clicked, and only the first option
\* in list order whose text equals the response; once the matching loop is
\* over and the response equals some option's text, exactly that control was
\* clicked and the loop compared nothing after it.
C3_FirstMatchClicked ==
    /\ Len(optionClicks) <= 1
    /\ optionClicks # <<>> =>
          /\ decided /\ HasMatch
          /\ optionClicks = <<options_list[FirstMatch].ctrl>>
    /\ HasMatch => Len(scanned) <= FirstMatch
    /\ (pc \in PastScan /\ HasMatch) =>
          /\ optionClicks = <<options_list[FirstMatch].ctrl>>
          /\ Len(scanned) = FirstMatch
          /\ found

C3_Witness ==
    /\ pc = "s6_find_next"
    /\ Len(options_list) = 2
    /\ options_list[1].text = chosen_option
    /\ options_list[2].text = chosen_option
    /\ optionClicks = <<1>>
    /\ scanned = <<1>>

\* C4: when the response equals no option text, no option is clicked, the
\* warning is logged, and a run that logged the warning has attempted the
\* Next lookup by the time it ends.
C4_NoMatchStillNext ==
    /\ (decided /\ ~HasMatch) => optionClicks = <<>>
    /\ (pc \in PastCheck /\ ~found) => "warning:option_not_found" \in log
    /\ (pc = "exited" /\ "warning:option_not_found" \in log) => nextAttempted

\* C5: no exception raised by an overlay call ever reaches the top-level
\* handler or leaves the script.
C5_OverlayNeverAborts == exc.op # "overlay"

\* C6: a process that entered the try block with the API key present ends
\* with exit code 0 after calling quit (a failing quit itself set aside).
C6_ExitZero ==
    (pc = "exited" /\ ~KeyAbsent /\ navCalls > 0 /\ exc.at # "finally") =>
        (exitCode = 0 /\ quitCalls = 1)

\* C7: every extracted entry of a control without id holds "(no id/label)",
\* every entry of a control whose id has no label holds "(no label)", the
\* entries are appended one per control, and once the extraction loop is
\* over there is exactly one entry per matched control.
C7_Placeholders ==
    /\ Len(options_list) <= Len(option_inputs)
    /\ \A i \in 1..Len(options_list) :
          /\ option_inputs[i] = "" => options_list[i].text = <<"(no id/label)">>
          /\ (option_inputs[i] # "" /\ labelOf[option_inputs[i]] = NoLabel) =>
                options_list[i].text = <<"(no label)">>
    /\ pc \in PastExtract => Len(options_list) = Len(option_inputs)

C7_Witness ==
    /\ pc = "s3_enum"
    /\ Len(options_list) = 2
    /\ option_inputs[1] # ""
    /\ labelOf[option_inputs[1]] = NoLabel
    /\ options_list[1].text = <<"(no label)">>
    /\ "warning:label_not_found" \in log
    /\ options_list[2].text = <<"Green">>

\* C8: the i-th entry of the option list is the i-th matched control with its
\* text, at every moment; options are logged and highlighted with index i in
\* that order, the prompt joins the texts in that order, and the matching loop
\* compares them in that order.
C8_DomOrder ==
    /\ \A i \in 1..Len(options_list) :
          options_list[i] =
              [ctrl |-> i, text |-> OptionText(option_inputs[i], labelOf)]
    /\ Len(hlLog) <= Len(options_list)
    /\ \A k \in 1..Len(hlLog) :
          hlLog[k] = [idx |-> k, ctrl |-> k, text |-> options_list[k].text]
    /\ requests > 0 => promptOptions = Join(Texts(options_list))
    /\ Len(scanned) <= Len(options_list)
    /\ \A k \in 1..Len(scanned) : scanned[k] = k

C8_Witness ==
    /\ pc = "s5_check"
    /\ Len(options_list) = 2
    /\ options_list[1].text # options_list[2].text
    /\ Len(hlLog) = 2
    /\ promptOptions = options_list[1].text \o <<", ">> \o options_list[2].text
    /\ scanned = <<1, 2>>

\* C9: when the top-level handler has run and its overlay update returned,
\* the overlay shows the error message by the time quit has been called.
C9_ErrorShown ==
    (quitCalls > 0 /\ "exception" \in log /\ exc.at \notin {"handler", "finally"}) =>
        overlayText = ErrorText

\* C10: the script position never moves backwards, navigation and the
\* decision request happen at most once, the handler is followed only by the
\* finally block and the exit, and nothing is clicked before a decision was
\* received.
C10_Linear ==
    /\ [](/\ navCalls <= 1 /\ requests <= 1 /\ nextClicks <= 1
          /\ (optionClicks # <<>> \/ nextAttempted \/ nextClicks > 0) => decided)
    /\ [][/\ Rank(pc') >= Rank(pc)
          /\ pc = "handler" => pc' = "finally"
          /\ pc = "finally" => pc' = "exited"
          /\ pc' = "handler" => pc # "handler"]_vars

C10_Witness ==
    /\ pc = "exited"
    /\ exc.at = "s4_request"
    /\ "exception" \in log
    /\ requests = 1
    /\ quitCalls = 1
    /\ optionClicks = <<>>

====
